---- MODULE Spec2Model ----
(***************************************************************************)
(* Block lifecycle and atomic-transaction conflict scan of the coreth EVM  *)
(* plugin (plugin/evm/block.go, plugin/evm/export_tx.go).                  *)
(*                                                                         *)
(* A block id is the hash of its ethBlock, so an id fixes the parent hash; *)
(* the universe of block ids is the tree 0 (genesis), 1, 2, ... in which   *)
(* the parent of b is b \div 2.  The body of a block (its atomic tx and    *)
(* the gas price of its ordinary transactions) is fixed when the block is  *)
(* materialised by ParseBlock or BuildBlock.                               *)
(*                                                                         *)
(* The methods of UnsignedExportTx (Verify, SemanticVerify, Accept,        *)
(* EVMStateTransfer) are modelled on a signed export tx stx, the EVM state *)
(* stateDB and the Put calls smPuts received by shared memory; the block   *)
(* layer treats the outcome of these methods as a choice of the            *)
(* environment.                                                            *)
(***************************************************************************)
EXTENDS Integers, Sequences, FiniteSets, TLC

\* ------------------------------------------------------------- bounds ----
NumBlocks == 4          \* non-genesis block ids 1..NumBlocks
LifeBlocks == 2         \* block ids 1..LifeBlocks offered under SpecLife
InputCacheSize == 2     \* capacity of the ancestor-input LRU
QueueSize == 2          \* capacity of the pending atomic tx queue
MaxTxAccepts == 2       \* SpecAny: Accept calls counted per block

\* ------------------------------------------------------- value universe --
genesisHash == 0
Blocks == 0..NumBlocks
NoTx == [id |-> "none", kind |-> "none", ins |-> {}, outs |-> 0]
\* the nil ethBlock of a block id the VM has not seen
Nil == [decoded |-> FALSE, atx |-> NoTx, lowGas |-> FALSE]

UTXOs == {"U", "V"}

\* The atomic transactions blocks may carry.  An import consumes the
\* shared-memory UTXOs ins; an export consumes none and delivers outs
\* outputs.  "unknown" is an
\* UnsignedTx that does not implement UnsignedAtomicTx.
AtomicTxs ==
    { [id |-> "iU", kind |-> "import",  ins |-> {"U"}, outs |-> 0],
      [id |-> "iV", kind |-> "import",  ins |-> {"V"}, outs |-> 0],
      [id |-> "eT", kind |-> "export",  ins |-> {},    outs |-> 1],
      [id |-> "xT", kind |-> "unknown", ins |-> {},    outs |-> 0] }

\* ethBlock bodies: the attached atomic tx (NoTx when none) and whether some
\* ordinary transaction pays less than params.MinGasPrice.
Bodies == [decoded : {TRUE}, atx : AtomicTxs \cup {NoTx}, lowGas : BOOLEAN]

\* the bodies offered on the deep block tree of Spec: no atomic tx, an
\* import of U, an export
ScanBodies == { e \in Bodies : e.atx.id \in {"none", "iU", "eT"} /\ ~e.lowGas }

VARIABLES
    ethBlock,               \* block id -> body, Nil while the VM has not seen it
    blockStatusCache,       \* vm.blockStatusCache: block id -> cached status
    blockAtomicInputCache,  \* vm.blockAtomicInputCache: LRU, most recent first
    acceptedDB,             \* vm.acceptedDB: set of <<key bytes, block id>>
    sharedMemory,           \* ctx.SharedMemory: [src: UTXOs importable, dst: exported elements]
    pendingAtomicTxs,       \* vm.pendingAtomicTxs: FIFO of atomic txs to (re-)issue
    chain,                  \* blocks inserted into the EVM chain by InsertChain
    txAccepts,              \* block id -> number of times its tx's Accept took effect
    stx,                    \* a signed export tx (*Tx with its UnsignedExportTx) in hand
    stateDB,                \* the state.StateDB handed to EVMStateTransfer
    smPuts                  \* the Put calls ctx.SharedMemory received from ExportTx.Accept

\* the state of the block layer and the state of the export tx layer
blockVars == <<ethBlock, blockStatusCache, blockAtomicInputCache, acceptedDB,
               sharedMemory, pendingAtomicTxs, chain, txAccepts>>

txVars == <<stx, stateDB, smPuts>>

vars == <<ethBlock, blockStatusCache, blockAtomicInputCache, acceptedDB,
          sharedMemory, pendingAtomicTxs, chain, txAccepts, stx, stateDB, smPuts>>

\* ------------------------------------------------------------ Block ------
ParentHash(b) == b \div 2

\* vm.getBlock(id) # nil
getBlock(id) == ethBlock[id].decoded

getAtomicTx(eb) == eb.atx

getCachedStatus(id) == blockStatusCache[id]

\* Block.Status
Status(b) ==
    IF getCachedStatus(b) = "Unknown" /\ ethBlock[b].decoded
        THEN "Processing"
        ELSE getCachedStatus(b)

\* Block.Parent: the parent block, or the missing-block sentinel
Parent(b) ==
    IF getBlock(ParentHash(b))
        THEN [missing |-> FALSE, id |-> ParentHash(b)]
        ELSE [missing |-> TRUE,  id |-> ParentHash(b)]

RECURSIVE Number(_)
Number(b) == IF b = genesisHash THEN 0 ELSE 1 + Number(ParentHash(b))

\* Block.Height
Height(b) == Number(b)

\* big.Int.Bytes(): big-endian bytes without leading zeros (empty for 0)
RECURSIVE NumberBytes(_)
NumberBytes(n) ==
    IF n = 0 THEN <<>> ELSE Append(NumberBytes(n \div 256), n % 256)

\* UnsignedExportTx.InputUTXOs returns the empty set; an import names the
\* UTXOs of its ImportedInputs.
InputUTXOs(tx) == IF tx.kind = "import" THEN tx.ins ELSE {}

\* ------------------------------------------------- ancestor-input LRU ----
CacheHit(c, k) == \E i \in 1..Len(c) : c[i].key = k

CacheVal(c, k) == c[CHOOSE i \in 1..Len(c) : c[i].key = k].val

CacheDrop(c, k) == SelectSeq(c, LAMBDA e : e.key # k)

\* LRU.Get on a hit moves the entry to the front
CacheGet(c, k) == <<[key |-> k, val |-> CacheVal(c, k)]>> \o CacheDrop(c, k)

\* LRU.Put inserts at the front and evicts the least recently used entry
CachePut(c, k, v) ==
    LET d == <<[key |-> k, val |-> v]>> \o CacheDrop(c, k)
    IN  IF Len(d) > InputCacheSize THEN SubSeq(d, 1, InputCacheSize) ELSE d

\* the entry under k refers to the set object s: a mutation of s is seen
\* through the cache for as long as the entry is resident
CacheAlias(c, k, s) ==
    [i \in 1..Len(c) |-> IF c[i].key = k THEN [key |-> k, val |-> s] ELSE c[i]]

\* ------------------------------------------------- conflict scan ---------
\* Block.Verify, first loop: walk parent-wards from p until an Accepted
\* block, the genesis block or a block with a cached input set.
RECURSIVE ScanWalk(_, _, _)
ScanWalk(p, path, c) ==
    IF Status(p) = "Accepted" \/ p = genesisHash
        THEN [panic |-> FALSE, path |-> path, hit |-> FALSE, at |-> p, cache |-> c]
    ELSE IF CacheHit(c, p)
        THEN [panic |-> FALSE, path |-> path, hit |-> TRUE, at |-> p,
              cache |-> CacheGet(c, p)]
    ELSE IF Parent(p).missing
        \* p.Parent().(*Block) on the missing-block sentinel
        THEN [panic |-> TRUE, path |-> path, hit |-> FALSE, at |-> p, cache |-> c]
    ELSE ScanWalk(ParentHash(p), Append(path, p), c)

\* Block.Verify, second loop: from the far end of path towards the block,
\* union the inputs of each stop that carries an atomic tx and memoize
\* inputsCopy under the stop's id.
RECURSIVE ScanMemoize(_, _, _, _)
ScanMemoize(i, path, inputs, c) ==
    IF i = 0 THEN [inputs |-> inputs, cache |-> c]
    ELSE LET atx == getAtomicTx(ethBlock[path[i]])
             unioned == IF atx # NoTx THEN inputs \cup InputUTXOs(atx) ELSE inputs
             inputsCopy == IF atx # NoTx THEN unioned ELSE {}
         IN  ScanMemoize(i - 1, path, unioned, CachePut(c, path[i], inputsCopy))

\* A scan that also collects the inputs of the Accepted siblings of b, blocks
\* that are no ancestors of b.
ConflictScanWithSiblings(b, c) ==
    LET w == ScanWalk(Parent(b).id, <<>>, c)
        seed == IF w.hit THEN CacheVal(c, w.at) ELSE {}
        m == ScanMemoize(Len(w.path), w.path, seed, w.cache)
        sib == UNION { InputUTXOs(getAtomicTx(ethBlock[s])) :
                         s \in { x \in Blocks \ {genesisHash, b} :
                                   /\ ParentHash(x) = ParentHash(b)
                                   /\ Status(x) = "Accepted" } }
    IN  [panic  |-> w.panic,
         inputs |-> m.inputs \cup sib,
         cache  |-> m.cache]

\* The whole scan of Block.Verify for block b against cache c.  On a cache
\* hit inputs IS the cached set object (inputs = ret.(*ids.Set)), so the
\* unions of the second loop are written through to the entry that was hit.
ConflictScan(b, c) ==
    LET w == ScanWalk(Parent(b).id, <<>>, c)
        seed == IF w.hit THEN CacheVal(c, w.at) ELSE {}
        m == ScanMemoize(Len(w.path), w.path, seed, w.cache)
        \* atx.UnsignedTx.(UnsignedAtomicTx) on a stop of another type
        badType == \E i \in 1..Len(w.path) :
                      getAtomicTx(ethBlock[w.path[i]]).kind = "unknown"
    IN  [panic  |-> w.panic \/ badType,
         inputs |-> m.inputs,
         cache  |-> IF w.hit /\ CacheHit(m.cache, w.at)
                        THEN CacheAlias(m.cache, w.at, m.inputs)
                        ELSE m.cache]

\* ------------------------------------------------- atomic tx -------------
\* What the environment makes of the external steps of one Verify call:
\* the first of BlockState, SemanticVerify's signature/flow checks,
\* Processor.Process and InsertChain to fail, if any.
ExtOutcomes == {"ok", "stateErr", "semErr", "procErr", "insertErr"}

\* UnsignedExportTx.SemanticVerify: syntactic, credential and flow checks
\* of the tx body, none of which reads VM state
ExportSemanticVerify(tx, ext) == ext # "semErr"

\* UnsignedImportTx.SemanticVerify: as for export, and every imported UTXO
\* must be readable in the source chain's shared memory
ImportSemanticVerify(tx, ext) == ext # "semErr" /\ tx.ins \subseteq sharedMemory.src

SemanticVerify(tx, ext) ==
    IF tx.kind = "import" THEN ImportSemanticVerify(tx, ext)
    ELSE ExportSemanticVerify(tx, ext)

\* elements UnsignedExportTx.Accept hands to SharedMemory.Put: one per
\* exported output, keyed by the UTXO (txID, output index)
ExportElems(tx) == { <<tx.id, i>> : i \in 0..(tx.outs - 1) }

\* UnsignedExportTx.Accept; fail names the step the environment fails
ExportAccept(tx, sm, fail) ==
    IF fail = "marshal" THEN [err |-> "errMarshal", sm |-> sm]
    ELSE IF fail = "sm" THEN [err |-> "errSharedMemory", sm |-> sm]
    ELSE [err |-> "ok", sm |-> [sm EXCEPT !.dst = @ \cup ExportElems(tx)]]

\* UnsignedImportTx.Accept: SharedMemory.Remove of the imported UTXOs
ImportAccept(tx, sm, fail) ==
    IF fail = "sm" THEN [err |-> "errSharedMemory", sm |-> sm]
    ELSE [err |-> "ok", sm |-> [sm EXCEPT !.src = @ \ tx.ins]]

\* vm.issueTx: a non-blocking send on the bounded pending-tx queue
issueTx(q, tx) ==
    IF Len(q) < QueueSize THEN [err |-> "ok", q |-> Append(q, tx)]
    ELSE [err |-> "errTooManyAtomicTx", q |-> q]

\* vm.updateStatus
updateStatus(cache, id, st) == [cache EXCEPT ![id] = st]

\* acceptedDB.Put
DBPut(db, k, v) == { e \in db : e[1] # k } \cup { <<k, v>> }

\* ------------------------------------------------- Block.Verify ----------
\* the gate applied whether or not bootstrapping has finished
MinGasPriceGateAlways(eb, boot) == eb.lowGas

\* the minimum gas price is enforced once bootstrapping has finished: some
\* ordinary transaction of the block pays less than params.MinGasPrice
MinGasPriceGate(eb, boot) == boot /\ eb.lowGas

VerifyOutcome(b, boot, ext) ==
    LET eb == ethBlock[b]
        tx == getAtomicTx(eb)
        c0 == blockAtomicInputCache
        scan == ConflictScan(b, c0)
        Out(r, c, ch) == [ret |-> r, cache |-> c, chain |-> ch]
        Insert(c) == IF ext = "insertErr" THEN Out("errInsertChain", c, chain)
                     ELSE Out("ok", c, chain \cup {b})
        Rest(c) == IF ~SemanticVerify(tx, ext) THEN Out("errSemanticVerify", c, chain)
                   ELSE IF ext = "procErr" THEN Out("errProcess", c, chain)
                   ELSE Insert(c)
    IN  IF MinGasPriceGate(eb, boot) THEN Out("errInsufficientGasPrice", c0, chain)
        ELSE IF tx = NoTx THEN Insert(c0)
        ELSE IF Parent(b).missing THEN Out("panic", c0, chain)
        ELSE IF ext = "stateErr" THEN Out("errBlockState", c0, chain)
        ELSE IF tx.kind = "import" THEN
            IF b = genesisHash THEN Out("ok", c0, chain)
            ELSE IF scan.panic THEN Out("panic", c0, chain)
            ELSE IF InputUTXOs(tx) \cap scan.inputs # {}
                THEN Out("errAtomicInputConflict", scan.cache, chain)
            ELSE Rest(scan.cache)
        ELSE IF tx.kind = "export" THEN Rest(c0)
        ELSE Out("errUnknownAtomicTxType", c0, chain)

\* a Verify that marks the block Rejected when it returns an error
VerifyRejectsOnError(b, boot, ext) ==
    /\ ethBlock[b].decoded
    /\ LET r == VerifyOutcome(b, boot, ext)
       IN  /\ blockAtomicInputCache' = r.cache
           /\ chain' = r.chain
           /\ blockStatusCache' =
                 IF r.ret \in {"ok", "panic"} THEN blockStatusCache
                 ELSE updateStatus(blockStatusCache, b, "Rejected")
    /\ UNCHANGED <<txVars, ethBlock, acceptedDB, sharedMemory,
                   pendingAtomicTxs, txAccepts>>

Verify(b, boot, ext) ==
    /\ ethBlock[b].decoded
    /\ LET r == VerifyOutcome(b, boot, ext)
       IN  /\ blockAtomicInputCache' = r.cache
           /\ chain' = r.chain
    /\ UNCHANGED <<txVars, ethBlock, blockStatusCache, acceptedDB, sharedMemory,
                   pendingAtomicTxs, txAccepts>>

\* ------------------------------------------------- Block.Accept ----------
AcceptFailures == {"none", "db", "marshal", "sm"}

AcceptOutcome(b, fail) ==
    LET tx == getAtomicTx(ethBlock[b])
        db1 == DBPut(acceptedDB, NumberBytes(Number(b)), b)
        utx == IF tx.kind = "export" THEN ExportAccept(tx, sharedMemory, fail)
               ELSE ImportAccept(tx, sharedMemory, fail)
        Out(r, db, sm, n) == [ret |-> r, db |-> db, sm |-> sm, applied |-> n]
    IN  IF fail = "db" THEN Out("errDBPut", acceptedDB, sharedMemory, 0)
        ELSE IF tx = NoTx THEN Out("ok", db1, sharedMemory, 0)
        ELSE IF tx.kind \notin {"import", "export"}
            THEN Out("errUnknownAtomicTxType", db1, sharedMemory, 0)
        ELSE Out(utx.err, db1, utx.sm, IF utx.err = "ok" THEN 1 ELSE 0)

Accept(b, fail) ==
    /\ ethBlock[b].decoded
    /\ LET r == AcceptOutcome(b, fail)
       IN  /\ blockStatusCache' = updateStatus(blockStatusCache, b, "Accepted")
           /\ acceptedDB' = r.db
           /\ sharedMemory' = r.sm
           /\ txAccepts' = [txAccepts EXCEPT ![b] = @ + r.applied]
    /\ UNCHANGED <<txVars, ethBlock, blockAtomicInputCache, pendingAtomicTxs, chain>>

\* ------------------------------------------------- Block.Reject ----------
\* RejectOutcome without the re-issue of the carried atomic tx
RejectOutcomeNoReissue(b) ==
    [ret    |-> "ok",
     status |-> updateStatus(blockStatusCache, b, "Rejected"),
     queue  |-> pendingAtomicTxs,
     issue  |-> "none"]

\* the status it caches, the pending queue it leaves and what it returns:
\* a failed re-issue is logged and swallowed
RejectOutcome(b) ==
    LET tx == getAtomicTx(ethBlock[b])
        issued == issueTx(pendingAtomicTxs, tx)
    IN  [ret    |-> "ok",
         status |-> updateStatus(blockStatusCache, b, "Rejected"),
         queue  |-> IF tx # NoTx THEN issued.q ELSE pendingAtomicTxs,
         issue  |-> IF tx # NoTx THEN issued.err ELSE "none"]

Reject(b) ==
    /\ ethBlock[b].decoded
    /\ LET r == RejectOutcome(b)
       IN  /\ blockStatusCache' = r.status
           /\ pendingAtomicTxs' = r.queue
    /\ UNCHANGED <<txVars, ethBlock, blockAtomicInputCache, acceptedDB, sharedMemory,
                   chain, txAccepts>>

\* ------------------------------------------------- VM ---------------------
\* vm.ParseBlock: the host hands over a block the VM has not seen
ParseBlock(b, body) ==
    /\ b # genesisHash
    /\ ~ethBlock[b].decoded
    /\ ethBlock' = [ethBlock EXCEPT ![b] = body]
    /\ UNCHANGED <<txVars, blockStatusCache, blockAtomicInputCache, acceptedDB,
                   sharedMemory, pendingAtomicTxs, chain, txAccepts>>

\* vm.BuildBlock: a new block on a known parent carrying the head of the
\* pending atomic tx queue
BuildBlock(b) ==
    /\ b # genesisHash
    /\ ~ethBlock[b].decoded
    /\ ethBlock[ParentHash(b)].decoded
    /\ pendingAtomicTxs # <<>>
    /\ ethBlock' = [ethBlock EXCEPT ![b] =
                        [decoded |-> TRUE, atx |-> Head(pendingAtomicTxs),
                         lowGas |-> FALSE]]
    /\ pendingAtomicTxs' = Tail(pendingAtomicTxs)
    /\ UNCHANGED <<txVars, blockStatusCache, blockAtomicInputCache, acceptedDB,
                   sharedMemory, chain, txAccepts>>

\* ------------------------------------------------- export tx: values ------
MaxIns == 2             \* longest Ins list of an export tx
MaxOuts == 2            \* longest ExportedOutputs list of an export tx
MaxAmount == 2          \* largest amount of an input or output
MaxNonce == 1           \* largest nonce of an input or account at the start

Addresses == {"A", "B"}
Assets == {"AVAX", "X"}
Amounts == {1, MaxAmount}

\* snow.Context of the VM: fixed for the lifetime of the VM
vmCtx == [NetworkID |-> 1, ChainID |-> "C", XChainID |-> "X", AVAXAssetID |-> "AVAX"]

\* vm.txFee, in units of the fee asset
txFee == 1

\* EVM-side units per UTXO-side unit
x2cRate == 2

\* ids.ID.IsZero
IsZero(id) == id = "zero"

\* the bytes of an id and of an address, as the codec writes them
IdBytes(id) == IF id = "AVAX" THEN 1 ELSE 2

AddrBytes(a) == IF a = "A" THEN 1 ELSE 2

\* all lists over S of length at most n
SeqsUpTo(S, n) == UNION { [1..k -> S] : k \in 0..n }

\* the sum of a list of numbers
RECURSIVE Sum(_)
Sum(s) == IF s = <<>> THEN 0 ELSE Head(s) + Sum(Tail(s))

\* bytes.Compare(x, y) <= 0
RECURSIVE BytesLeq(_, _)
BytesLeq(x, y) ==
    IF x = <<>> THEN TRUE
    ELSE IF y = <<>> THEN FALSE
    ELSE IF Head(x) < Head(y) THEN TRUE
    ELSE IF Head(x) > Head(y) THEN FALSE
    ELSE BytesLeq(Tail(x), Tail(y))

\* Codec.Marshal of the Out of a transferable output: type tag, amount and,
\* for an output with owners, the owner addresses
MarshalOut(out) ==
    IF out.addressable
        THEN <<1, out.Amt, Len(out.Addrs)>>
             \o [i \in 1..Len(out.Addrs) |-> AddrBytes(out.Addrs[i])]
        ELSE <<2, out.Amt>>

\* the canonical order of transferable outputs: by asset id, then by the
\* serialization of the Out
OutLess(x, y) ==
    IF IdBytes(x.AssetID) < IdBytes(y.AssetID) THEN TRUE
    ELSE IF IdBytes(x.AssetID) > IdBytes(y.AssetID) THEN FALSE
    ELSE ~BytesLeq(MarshalOut(y), MarshalOut(x))

\* avax.IsSortedTransferableOutputs: no element is less than its predecessor
IsSortedTransferableOutputs(outs) ==
    \A i \in 2..Len(outs) : ~OutLess(outs[i], outs[i - 1])

\* EVMInput.Verify
InVerify(in) == "ok"

\* TransferableOutput.Verify: an output of no value is refused
OutVerify(out) == IF out.Amt = 0 THEN "errNoValueOutput" ELSE "ok"

\* ------------------------------------------------- UnsignedExportTx.Verify
\* Verify with syntacticallyVerified set as soon as the header checks passed
ExportTxVerifyMarkEarly(tx, avmID, ctx) ==
    LET Out(r, t) == [ret |-> r, tx |-> t]
    IN  IF tx.isNil THEN Out("errNilTx", tx)
        ELSE IF tx.syntacticallyVerified THEN Out("ok", tx)
        ELSE IF IsZero(tx.DestinationChain) THEN Out("errWrongChainID", tx)
        ELSE IF tx.DestinationChain # avmID THEN Out("errWrongChainID", tx)
        ELSE IF Len(tx.ExportedOutputs) = 0 THEN Out("errNoExportOutputs", tx)
        ELSE IF tx.NetworkID # ctx.NetworkID THEN Out("errWrongNetworkID", tx)
        ELSE IF ctx.ChainID # tx.BlockchainID THEN Out("errWrongBlockchainID", tx)
        ELSE IF ~IsSortedTransferableOutputs(tx.ExportedOutputs)
            THEN Out("errOutputsNotSorted", [tx EXCEPT !.syntacticallyVerified = TRUE])
        ELSE Out("ok", [tx EXCEPT !.syntacticallyVerified = TRUE])

\* the error Verify returns and the tx it leaves (syntacticallyVerified)
ExportTxVerify(tx, avmID, ctx) ==
    LET Out(r, t) == [ret |-> r, tx |-> t]
        ins == tx.Ins
        outs == tx.ExportedOutputs
        badIn == { i \in 1..Len(ins) : InVerify(ins[i]) # "ok" }
        badOut == { i \in 1..Len(outs) : OutVerify(outs[i]) # "ok" }
        First(S) == CHOOSE i \in S : \A j \in S : i <= j
    IN  IF tx.isNil THEN Out("errNilTx", tx)
        ELSE IF tx.syntacticallyVerified THEN Out("ok", tx)
        ELSE IF IsZero(tx.DestinationChain) THEN Out("errWrongChainID", tx)
        ELSE IF tx.DestinationChain # avmID THEN Out("errWrongChainID", tx)
        ELSE IF Len(outs) = 0 THEN Out("errNoExportOutputs", tx)
        ELSE IF tx.NetworkID # ctx.NetworkID THEN Out("errWrongNetworkID", tx)
        ELSE IF ctx.ChainID # tx.BlockchainID THEN Out("errWrongBlockchainID", tx)
        ELSE IF badIn # {} THEN Out(InVerify(ins[First(badIn)]), tx)
        ELSE IF badOut # {} THEN Out(OutVerify(outs[First(badOut)]), tx)
        ELSE IF ~IsSortedTransferableOutputs(outs) THEN Out("errOutputsNotSorted", tx)
        ELSE Out("ok", [tx EXCEPT !.syntacticallyVerified = TRUE])

\* ------------------------------------------------- SemanticVerify ---------
\* signatures: one made with the key of A or of B over the unsigned bytes
\* of the tx, or bytes that are no signature
Sigs == {"sigA", "sigB", "bad"}

\* crypto.FactorySECP256K1R.RecoverPublicKey
RecoverPublicKey(sig) ==
    IF sig = "sigA" THEN [err |-> FALSE, key |-> "pubA"]
    ELSE IF sig = "sigB" THEN [err |-> FALSE, key |-> "pubB"]
    ELSE [err |-> TRUE, key |-> "none"]

PublicKeyToEthAddress(key) == IF key = "pubA" THEN "A" ELSE "B"

\* the loop over stx.Creds: credential i is checked against tx.Ins[i]
RECURSIVE CredLoop(_, _, _)
CredLoop(ins, creds, i) ==
    IF i > Len(creds) THEN "ok"
    ELSE LET rec == RecoverPublicKey(creds[i])
         IN  IF rec.err THEN "errRecoverPublicKey"
             \* tx.Ins[i] with i out of range
             ELSE IF i > Len(ins) THEN "panic"
             ELSE IF ins[i].Address # PublicKeyToEthAddress(rec.key)
                 THEN "errPublicKeySignatureMismatch"
             ELSE CredLoop(ins, creds, i + 1)

\* avax.FlowChecker: the amounts produced and consumed per asset
Produced(tx, asset) ==
    (IF asset = vmCtx.AVAXAssetID THEN txFee ELSE 0)
    + Sum([i \in 1..Len(tx.ExportedOutputs) |->
              IF tx.ExportedOutputs[i].AssetID = asset
                  THEN tx.ExportedOutputs[i].Amt ELSE 0])

Consumed(tx, asset) ==
    Sum([i \in 1..Len(tx.Ins) |->
            IF tx.Ins[i].AssetID = asset THEN tx.Ins[i].Amount ELSE 0])

\* FlowChecker.Verify: no asset is produced in excess of what is consumed
FlowCheckerVerify(tx) ==
    IF \E a \in Assets : Produced(tx, a) > Consumed(tx, a)
        THEN "errInsufficientFunds" ELSE "ok"

\* UnsignedExportTx.SemanticVerify of the signed tx s: the error, whether it
\* is a permError, and the tx as Verify leaves it
ExportTxSemanticVerify(s) ==
    LET v == ExportTxVerify(s, vmCtx.XChainID, vmCtx)
        sig == CredLoop(s.Ins, s.Creds, 1)
        Out(r, p, t) == [ret |-> r, perm |-> p, tx |-> t]
    IN  IF v.ret # "ok" THEN Out(v.ret, TRUE, v.tx)
        ELSE IF sig = "panic" THEN Out("panic", FALSE, v.tx)
        ELSE IF sig # "ok" THEN Out(sig, TRUE, v.tx)
        ELSE IF FlowCheckerVerify(s) # "ok" THEN Out(FlowCheckerVerify(s), TRUE, v.tx)
        ELSE Out("ok", FALSE, v.tx)

\* ------------------------------------------------- UnsignedExportTx.Accept
\* avax.UTXO.InputID: the hash of (TxID, OutputIndex)
InputID(utxo) == <<utxo.TxID, utxo.OutputIndex>>

\* Codec.Marshal of a UTXO
MarshalUTXO(utxo) ==
    <<utxo.TxID, utxo.OutputIndex, IdBytes(utxo.AssetID)>> \o MarshalOut(utxo.Out)

\* what Accept fails at: Codec.Marshal of output marshalAt (0: none), and
\* SharedMemory.Put
ExportAcceptFails == [marshalAt : 0..MaxOuts, sm : BOOLEAN]

\* the atomic.Element Accept builds for output i (1-based)
ExportElement(tx, i) ==
    LET out == tx.ExportedOutputs[i]
        \* uint32(i) of the 0-based index; the list is far shorter than 2^32
        utxo == [TxID |-> tx.id, OutputIndex |-> i - 1,
                 AssetID |-> out.AssetID, Out |-> out]
    IN  [Key |-> InputID(utxo),
         Value |-> MarshalUTXO(utxo),
         Traits |-> IF out.addressable THEN out.Addrs ELSE <<>>]

\* Accept that leaves the Traits of every element empty
ExportTxAcceptNoTraits(tx, fail) ==
    LET n == Len(tx.ExportedOutputs)
        elems == [i \in 1..n |-> [ExportElement(tx, i) EXCEPT !.Traits = <<>>]]
    IN  IF fail.marshalAt \in 1..n THEN [ret |-> "errMarshal", puts |-> {}]
        ELSE IF fail.sm THEN [ret |-> "errSharedMemory", puts |-> {}]
        ELSE [ret |-> "ok",
              puts |-> {[chain |-> tx.DestinationChain, elems |-> elems]}]

\* the error Accept returns and the Put calls shared memory has taken
ExportTxAccept(tx, fail) ==
    LET n == Len(tx.ExportedOutputs)
        elems == [i \in 1..n |-> ExportElement(tx, i)]
    IN  IF fail.marshalAt \in 1..n THEN [ret |-> "errMarshal", puts |-> {}]
        ELSE IF fail.sm THEN [ret |-> "errSharedMemory", puts |-> {}]
        ELSE [ret |-> "ok",
              puts |-> {[chain |-> tx.DestinationChain, elems |-> elems]}]

\* ------------------------------------------------- EVMStateTransfer -------
\* state.StateDB: GetBalance / GetBalanceMultiCoin of an input's asset
GetBalanceOf(st, from) ==
    IF from.AssetID = vmCtx.AVAXAssetID
        THEN st.balance[from.Address]
        ELSE st.multiCoin[from.Address][from.AssetID]

\* state.StateDB: SubBalance / SubBalanceMultiCoin
SubBalanceOf(st, from, amount) ==
    IF from.AssetID = vmCtx.AVAXAssetID
        THEN [st EXCEPT !.balance[from.Address] = @ - amount]
        ELSE [st EXCEPT !.multiCoin[from.Address][from.AssetID] = @ - amount]

\* the loop without the nonce check: every input bumps the account nonce
RECURSIVE TransferLoopAnyNonce(_, _, _)
TransferLoopAnyNonce(ins, i, st) ==
    IF i > Len(ins) THEN [ret |-> "ok", state |-> st]
    ELSE LET from == ins[i]
             amount == from.Amount * x2cRate
             debited == SubBalanceOf(st, from, amount)
         IN  IF GetBalanceOf(st, from) < amount
                 THEN [ret |-> "errInsufficientFunds", state |-> st]
             ELSE TransferLoopAnyNonce(ins, i + 1,
                      [debited EXCEPT !.nonce[from.Address] = @ + 1])

\* the loop over tx.Ins from input i on state st
RECURSIVE TransferLoop(_, _, _)
TransferLoop(ins, i, st) ==
    IF i > Len(ins) THEN [ret |-> "ok", state |-> st]
    ELSE LET from == ins[i]
             amount == from.Amount * x2cRate
             debited == SubBalanceOf(st, from, amount)
         IN  IF GetBalanceOf(st, from) < amount
                 THEN [ret |-> "errInsufficientFunds", state |-> st]
             ELSE IF debited.nonce[from.Address] # from.Nonce
                 THEN [ret |-> "errInvalidNonce", state |-> debited]
             ELSE TransferLoop(ins, i + 1,
                      [debited EXCEPT !.nonce[from.Address] = from.Nonce + 1])

\* the error EVMStateTransfer returns and the state it leaves
EVMStateTransfer(tx, st) == TransferLoop(tx.Ins, 1, st)

\* ------------------------------------------------- export tx: actions -----
TxVerify ==
    /\ stx' = ExportTxVerify(stx, vmCtx.XChainID, vmCtx).tx
    /\ UNCHANGED <<blockVars, stateDB, smPuts>>

TxSemanticVerify ==
    /\ stx' = ExportTxSemanticVerify(stx).tx
    /\ UNCHANGED <<blockVars, stateDB, smPuts>>

TxAccept == \E fail \in ExportAcceptFails :
    /\ ~stx.isNil
    /\ smPuts' = smPuts \cup ExportTxAccept(stx, fail).puts
    /\ UNCHANGED <<blockVars, stx, stateDB>>

TxStateTransfer ==
    /\ ~stx.isNil
    /\ stateDB' = EVMStateTransfer(stx, stateDB).state
    /\ UNCHANGED <<blockVars, stx, smPuts>>

\* ------------------------------------------------- export tx: inputs ------
DefaultIn == [Address |-> "A", AssetID |-> "AVAX", Amount |-> MaxAmount, Nonce |-> 0]

DefaultOut == [AssetID |-> "AVAX", Amt |-> 1, addressable |-> TRUE, Addrs |-> <<"A">>]

\* a well-formed signed export tx as ParseBlock decodes it
BaseStx ==
    [isNil |-> FALSE, id |-> "T", syntacticallyVerified |-> FALSE,
     NetworkID |-> vmCtx.NetworkID, BlockchainID |-> vmCtx.ChainID,
     DestinationChain |-> vmCtx.XChainID,
     Ins |-> <<DefaultIn>>, ExportedOutputs |-> <<DefaultOut>>,
     Creds |-> <<"sigA">>]

\* the genesis allocation
GenesisStateDB ==
    [balance   |-> [a \in Addresses |-> MaxAmount * x2cRate],
     multiCoin |-> [a \in Addresses |-> [s \in Assets \ {"AVAX"} |-> MaxAmount * x2cRate]],
     nonce     |-> [a \in Addresses |-> 0]]

\* txs that differ in what Verify reads: nil, the header and the outputs
HeaderTxs ==
    { [BaseStx EXCEPT !.isNil = n, !.NetworkID = nw, !.BlockchainID = bc,
                      !.DestinationChain = d, !.ExportedOutputs = o] :
        n \in BOOLEAN, nw \in {1, 2}, bc \in {"C", "X"}, d \in {"zero", "X", "C"},
        o \in SeqsUpTo([AssetID : Assets, Amt : 0..MaxAmount,
                        addressable : {TRUE}, Addrs : {<<"A">>}], MaxOuts) }

\* txs that differ in the input addresses and the credentials
SigTxs ==
    { [BaseStx EXCEPT !.Ins = [i \in 1..Len(a) |-> [DefaultIn EXCEPT !.Address = a[i]]],
                      !.Creds = c] :
        a \in SeqsUpTo(Addresses, MaxIns), c \in SeqsUpTo(Sigs, MaxIns + 1) }

\* correctly signed txs that differ in the assets and amounts they move
FlowTxs ==
    { [BaseStx EXCEPT !.Ins = i, !.ExportedOutputs = o,
                      !.Creds = [k \in 1..Len(i) |-> "sigA"]] :
        i \in SeqsUpTo([Address : {"A"}, AssetID : Assets, Amount : Amounts,
                        Nonce : {0}], MaxIns),
        o \in SeqsUpTo([AssetID : Assets, Amt : Amounts,
                        addressable : {TRUE}, Addrs : {<<"A">>}], MaxOuts) }

\* txs that differ in their outputs and the owners of these
AcceptTxs ==
    { [BaseStx EXCEPT !.ExportedOutputs = o] :
        o \in SeqsUpTo([AssetID : Assets, Amt : Amounts, addressable : BOOLEAN,
                        Addrs : {<<"A">>, <<"A", "B">>}], MaxOuts) }

\* txs that differ in their inputs, and the account nonces they meet
TransferTxs ==
    { [BaseStx EXCEPT !.Ins = i] :
        i \in SeqsUpTo([Address : Addresses, AssetID : Assets, Amount : Amounts,
                        Nonce : 0..MaxNonce], MaxIns) }

TransferStates ==
    { [GenesisStateDB EXCEPT !.nonce = n] : n \in [Addresses -> 0..MaxNonce] }

\* no export tx is being handled: the tx layer at rest
TxIdle == stx = BaseStx /\ stateDB = GenesisStateDB /\ smPuts = {}

\* ------------------------------------------------- specifications --------
InitBlocks ==
    /\ ethBlock = [b \in Blocks |->
                     IF b = genesisHash
                         THEN [decoded |-> TRUE, atx |-> NoTx, lowGas |-> FALSE]
                         ELSE Nil]
    /\ blockStatusCache = [b \in Blocks |->
                     IF b = genesisHash THEN "Accepted" ELSE "Unknown"]
    /\ blockAtomicInputCache = <<>>
    /\ acceptedDB = {}
    /\ sharedMemory = [src |-> UTXOs, dst |-> {}]
    /\ pendingAtomicTxs = <<>>
    /\ chain = {genesisHash}
    /\ txAccepts = [b \in Blocks |-> 0]

Init == InitBlocks /\ TxIdle

Siblings(b) == { s \in Blocks \ {b, genesisHash} : ParentHash(s) = ParentHash(b) }

\* the acceptance index read at the height of b
IndexAt(h) == { e[2] : e \in { x \in acceptedDB : x[1] = NumberBytes(h) } }

\* Accept(b) returned an error: it cached Accepted and then failed to write
\* the index or to apply the atomic tx
AcceptErrored(b) ==
    /\ Status(b) = "Accepted"
    /\ b # genesisHash
    /\ \/ b \notin IndexAt(Height(b))
       \/ getAtomicTx(ethBlock[b]) # NoTx /\ txAccepts[b] = 0

\* The consensus host decides a block once, after its Verify returned ok;
\* it accepts a block only on top of its Accepted parent, at most one block
\* per parent, and stops accepting once an Accept has returned an error.
HostVerify == \E b \in Blocks, boot \in BOOLEAN, ext \in ExtOutcomes :
    Status(b) = "Processing" /\ Verify(b, boot, ext)

HostAccept == \E b \in Blocks, fail \in AcceptFailures :
    /\ Status(b) = "Processing"
    /\ b \in chain
    /\ Status(ParentHash(b)) = "Accepted"
    /\ \A s \in Siblings(b) : Status(s) # "Accepted"
    /\ \A a \in Blocks : ~AcceptErrored(a)
    /\ Accept(b, fail)

HostReject == \E b \in Blocks :
    /\ Status(b) = "Processing"
    /\ b \in chain
    /\ Reject(b)

HostParse == \E b \in Blocks, body \in ScanBodies : ParseBlock(b, body)

LifeParse == \E b \in 1..LifeBlocks, body \in Bodies : ParseBlock(b, body)

HostBuild == \E b \in Blocks : BuildBlock(b)

Next == HostParse \/ HostBuild \/ HostVerify \/ HostAccept \/ HostReject

\* the block tree of depth three with imports of one UTXO and exports
Spec == Init /\ [][Next]_vars

NextLife == LifeParse \/ HostBuild \/ HostVerify \/ HostAccept \/ HostReject

\* a short chain with every kind of body
SpecLife == Init /\ [][NextLife]_vars

\* A host that keeps none of the above: it calls Verify, Accept and Reject
\* on any block it has handed over, in any order and repeatedly, and the
\* status LRU drops entries.
AnyVerify == \E b \in Blocks \ {genesisHash}, boot \in BOOLEAN, ext \in ExtOutcomes :
    Verify(b, boot, ext)

AnyAccept == \E b \in Blocks \ {genesisHash}, fail \in AcceptFailures :
    txAccepts[b] < MaxTxAccepts /\ Accept(b, fail)

AnyReject == \E b \in Blocks \ {genesisHash} : Reject(b)

\* vm.blockStatusCache evicts the entry of b
EvictStatus == \E b \in Blocks \ {genesisHash} :
    /\ blockStatusCache[b] # "Unknown"
    /\ blockStatusCache' = [blockStatusCache EXCEPT ![b] = "Unknown"]
    /\ UNCHANGED <<txVars, ethBlock, blockAtomicInputCache, acceptedDB, sharedMemory,
                   pendingAtomicTxs, chain, txAccepts>>

AnyParse == \E b \in 1..LifeBlocks, body \in ScanBodies : ParseBlock(b, body)

NextAny == AnyParse \/ AnyVerify \/ AnyAccept \/ AnyReject \/ EvictStatus

SpecAny == Init /\ [][NextAny]_vars

\* An export tx of one of the families above is decoded and then verified,
\* accepted and applied to the EVM state, in any order and repeatedly.
InitTx ==
    /\ InitBlocks
    /\ smPuts = {}
    /\ \/ /\ stx \in HeaderTxs \cup SigTxs \cup FlowTxs \cup AcceptTxs
          /\ stateDB = GenesisStateDB
       \/ /\ stx \in TransferTxs
          /\ stateDB \in TransferStates

NextTx == TxVerify \/ TxSemanticVerify \/ TxAccept \/ TxStateTransfer

SpecTx == InitTx /\ [][NextTx]_vars

\* ------------------------------------------------- reference notions ------
\* Ancestor-input set (glossary): the union of InputUTXOs over the blocks
\* from p parent-wards to, but excluding, the last Accepted ancestor.
RECURSIVE PathInputs(_)
PathInputs(p) ==
    IF Status(p) = "Accepted" \/ p = genesisHash THEN {}
    ELSE InputUTXOs(getAtomicTx(ethBlock[p])) \cup PathInputs(ParentHash(p))

AncestorInputs(b) == PathInputs(ParentHash(b))

TxOf(b) == getAtomicTx(ethBlock[b])

\* Verify(b, boot, ext) gets as far as the conflict check of an import
ScanReached(b, boot, ext) ==
    /\ b # genesisHash
    /\ ethBlock[b].decoded
    /\ Status(b) = "Processing"
    /\ TxOf(b).kind = "import"
    /\ ~MinGasPriceGate(ethBlock[b], boot)
    /\ ~Parent(b).missing
    /\ ext # "stateErr"
    /\ ~ConflictScan(b, blockAtomicInputCache).panic

Conflicts(b, c) == InputUTXOs(TxOf(b)) \cap ConflictScan(b, c).inputs # {}

\* ------------------------------------------------- claims ------------------

\* C1: no missed conflict.  Whenever a Verify of a Processing block b with an
\* import tx reaches the conflict check and some id of b's InputUTXOs is in
\* the InputUTXOs of a non-Accepted ancestor between b and its last Accepted
\* ancestor, Verify returns atomicInputConflict.
C1_NoMissedConflict ==
    \A b \in Blocks \ {genesisHash} :
        InputUTXOs(TxOf(b)) \cap AncestorInputs(b) # {} =>
            \A boot \in BOOLEAN, ext \in ExtOutcomes :
                ScanReached(b, boot, ext)
                => VerifyOutcome(b, boot, ext).ret = "errAtomicInputConflict"

\* C2: conflict exclusion.  With a host that accepts a block only after its
\* Verify returned ok and its parent was Accepted, no UTXO id is an input of
\* the atomic txs of two blocks of the accepted chain.
C2_ConflictExclusion ==
    \A a, b \in Blocks :
        a # b /\ Status(a) = "Accepted" /\ Status(b) = "Accepted"
        => InputUTXOs(TxOf(a)) \cap InputUTXOs(TxOf(b)) = {}

\* the case of C3: siblings s1, s2 on an Accepted parent import a common
\* UTXO and the host has accepted s1 without error
SiblingCase(s1, s2) ==
    /\ ParentHash(s1) = ParentHash(s2) /\ s1 # s2
    /\ Status(s1) = "Accepted" /\ Status(s2) = "Processing"
    /\ Status(ParentHash(s2)) = "Accepted"
    /\ ~AcceptErrored(s1)
    /\ InputUTXOs(TxOf(s1)) \cap InputUTXOs(TxOf(s2)) # {}

C4_NoFalseSiblingConflict ==
    \A s2 \in Blocks \ {genesisHash} : \A s1 \in Siblings(s2) :
        /\ Status(s1) = "Processing"
        /\ InputUTXOs(TxOf(s1)) \cap InputUTXOs(TxOf(s2)) # {}
        /\ InputUTXOs(TxOf(s2)) \cap AncestorInputs(s2) = {}
        => \A boot \in BOOLEAN, ext \in ExtOutcomes :
               ScanReached(s2, boot, ext)
               => VerifyOutcome(s2, boot, ext).ret # "errAtomicInputConflict"

\* C5: cache residency independence.  For every block whose Verify reaches
\* the conflict check, the verdict of the scan against the ancestor-input
\* cache as it is equals the verdict of the scan against an empty cache.
C5_CacheIndependence ==
    \A b \in Blocks :
        ScanReached(b, FALSE, "ok") /\ ~ConflictScan(b, <<>>).panic
        => (Conflicts(b, blockAtomicInputCache) <=> Conflicts(b, <<>>))

\* C6: monotone status.  Once Status() of a block is Accepted or Rejected,
\* no step (Verify, Accept, Reject, status-cache eviction) changes it.
C6_MonotoneStatus ==
    [][\A b \in Blocks :
          Status(b) \in {"Accepted", "Rejected"} => Status(b)' = Status(b)]_vars

\* C7: acceptance index consistency.  For every block whose Status() is
\* Accepted, the acceptance index read at its height yields its id.
C7_IndexConsistency ==
    \A b \in Blocks \ {genesisHash} :
        Status(b) = "Accepted" => IndexAt(Height(b)) = {b}

\* C8: atomic commit boundary.  The acceptance index holds the height entry
\* of a block carrying an import or export iff the shared-memory effect of
\* that tx has been applied.
C8_AtomicCommit ==
    \A b \in Blocks \ {genesisHash} :
        TxOf(b).kind \in {"import", "export"}
        => (b \in IndexAt(Height(b)) <=> txAccepts[b] >= 1)

\* C9: exactly-once tx Accept.  The shared-memory effect of the atomic tx of
\* a block is applied exactly once when the block is Accepted, and not at
\* all while the block is Processing or Rejected.
C9_ExactlyOnce ==
    \A b \in Blocks \ {genesisHash} :
        TxOf(b).kind \in {"import", "export"}
        => txAccepts[b] = (IF Status(b) = "Accepted" THEN 1 ELSE 0)

Binds(c, addr) ==
    /\ ~RecoverPublicKey(c).err
    /\ PublicKeyToEthAddress(RecoverPublicKey(c).key) = addr

\* C11: signature binding.  Whenever SemanticVerify of an export tx returns
\* ok, every input i has a credential i whose signature recovers to
\* Ins[i].Address (so no tx with fewer credentials than inputs passes); and a
\* tx with more credentials than inputs gets an error, neither ok nor a crash.
C11_SignatureBinding ==
    LET r == ExportTxSemanticVerify(stx)
    IN  /\ r.ret = "ok" =>
             /\ Len(stx.Creds) >= Len(stx.Ins)
             /\ \A i \in 1..Len(stx.Ins) : Binds(stx.Creds[i], stx.Ins[i].Address)
        /\ Len(stx.Creds) > Len(stx.Ins) => r.ret \notin {"ok", "panic"}

\* C12: flow conservation.  SemanticVerify returns ok only if for every
\* asset the amount consumed by Ins equals the amount produced by
\* ExportedOutputs plus txFee on the fee asset; a tx consuming less of some
\* asset than it produces is rejected with a permanent error.
C12_FlowConservation ==
    LET r == ExportTxSemanticVerify(stx)
    IN  /\ r.ret = "ok" =>
             \A a \in Assets : Consumed(stx, a) = Produced(stx, a)
        /\ /\ \E a \in Assets : Consumed(stx, a) < Produced(stx, a)
           /\ Len(stx.Creds) <= Len(stx.Ins)
           => r.ret \notin {"ok", "panic"} /\ r.perm

\* what Verify is to establish of an export tx in the VM's context
WellFormedExport(tx) ==
    /\ ~tx.isNil
    /\ ~IsZero(tx.DestinationChain) /\ tx.DestinationChain = vmCtx.XChainID
    /\ Len(tx.ExportedOutputs) > 0
    /\ \A i, j \in 1..Len(tx.ExportedOutputs) :
          i < j => ~OutLess(tx.ExportedOutputs[j], tx.ExportedOutputs[i])
    /\ tx.NetworkID = vmCtx.NetworkID
    /\ tx.BlockchainID = vmCtx.ChainID

\* C13: ExportTx.Verify returns ok only for a tx whose DestinationChain is
\* the non-zero X-Chain id, whose outputs are non-empty and sorted and whose
\* NetworkID and BlockchainID are the context's; each of its errors names the
\* check that failed (nilTx for a nil tx); a second call returns what the
\* first returned; a failed call leaves the tx unmarked, and a marked tx has
\* passed every check.
C13_VerifyContract ==
    LET r == ExportTxVerify(stx, vmCtx.XChainID, vmCtx)
        again == ExportTxVerify(r.tx, vmCtx.XChainID, vmCtx)
        outs == stx.ExportedOutputs
    IN  /\ r.ret = "ok" => WellFormedExport(stx)
        /\ stx.isNil <=> r.ret = "errNilTx"
        /\ r.ret = "errWrongChainID" =>
              IsZero(stx.DestinationChain) \/ stx.DestinationChain # vmCtx.XChainID
        /\ r.ret = "errNoExportOutputs" => Len(outs) = 0
        /\ r.ret = "errWrongNetworkID" => stx.NetworkID # vmCtx.NetworkID
        /\ r.ret = "errWrongBlockchainID" => stx.BlockchainID # vmCtx.ChainID
        /\ r.ret = "errOutputsNotSorted" =>
              \E i \in 2..Len(outs) : OutLess(outs[i], outs[i - 1])
        /\ again.ret = r.ret
        /\ again.tx = r.tx
        /\ r.ret # "ok" => ~r.tx.syntacticallyVerified
        /\ r.ret = "ok" => r.tx.syntacticallyVerified
        /\ stx.syntacticallyVerified => WellFormedExport(stx)

\* a tx with two different outputs in canonical order has been marked
C13_Witness ==
    /\ stx.syntacticallyVerified
    /\ Len(stx.ExportedOutputs) = 2
    /\ OutLess(stx.ExportedOutputs[1], stx.ExportedOutputs[2])

\* the accounts of the EVM state, read per (address, asset)
BalanceIn(st, addr, asset) ==
    IF asset = "AVAX" THEN st.balance[addr] ELSE st.multiCoin[addr][asset]

\* what the inputs before input i of ins have debited from the balance input
\* i draws on, and how many of them are from the address of input i
DebitedBefore(ins, i) ==
    Sum([j \in 1..(i - 1) |->
            IF ins[j].Address = ins[i].Address /\ ins[j].AssetID = ins[i].AssetID
                THEN ins[j].Amount * x2cRate ELSE 0])

InputsBefore(ins, i) ==
    Cardinality({ j \in 1..(i - 1) : ins[j].Address = ins[i].Address })

\* input i finds its funds / its nonce when the inputs before it have been
\* applied to st
Funded(ins, i, st) ==
    BalanceIn(st, ins[i].Address, ins[i].AssetID) - DebitedBefore(ins, i)
        >= ins[i].Amount * x2cRate

NonceMatches(ins, i, st) ==
    st.nonce[ins[i].Address] + InputsBefore(ins, i) = ins[i].Nonce

\* C14: EVMStateTransfer applies Ins in declaration order.  It returns ok
\* only if every input, when its turn comes, finds at least amount * x2cRate
\* in the balance of its asset (native balance for the native asset, else the
\* multi-coin balance) and the account nonce equal to its Nonce; on ok every
\* balance is lower by exactly the amount * x2cRate of the inputs drawing on
\* it and every nonce higher by the number of inputs of the address; the
\* first input that fails gives insufficientFunds on a shortfall and
\* invalidNonce on a nonce mismatch.
C14_StateTransfer ==
    LET ins == stx.Ins
        r == EVMStateTransfer(stx, stateDB)
        Applies(i) == Funded(ins, i, stateDB) /\ NonceMatches(ins, i, stateDB)
        FirstBad(i) == ~Applies(i) /\ \A j \in 1..(i - 1) : Applies(j)
    IN  /\ r.ret = "ok" <=> \A i \in 1..Len(ins) : Applies(i)
        /\ r.ret = "ok" =>
              /\ \A a \in Addresses, s \in Assets :
                    BalanceIn(r.state, a, s) = BalanceIn(stateDB, a, s)
                      - Sum([j \in 1..Len(ins) |->
                               IF ins[j].Address = a /\ ins[j].AssetID = s
                                   THEN ins[j].Amount * x2cRate ELSE 0])
              /\ \A a \in Addresses :
                    r.state.nonce[a] = stateDB.nonce[a]
                      + Cardinality({ j \in 1..Len(ins) : ins[j].Address = a })
        /\ \A i \in 1..Len(ins) :
              FirstBad(i) =>
                 r.ret = IF ~Funded(ins, i, stateDB) THEN "errInsufficientFunds"
                         ELSE "errInvalidNonce"

\* two inputs of address A with the consecutive nonces 0 and 1 have been
\* applied
C14_Witness ==
    /\ Len(stx.Ins) = 2
    /\ stx.Ins[1].Address = "A" /\ stx.Ins[2].Address = "A"
    /\ stx.Ins[1].Nonce = 0 /\ stx.Ins[2].Nonce = 1
    /\ stx.Ins[1].AssetID # stx.Ins[2].AssetID
    /\ stateDB.nonce["A"] = 2
    /\ stateDB.balance["A"] < GenesisStateDB.balance["A"]
    /\ stateDB.multiCoin["A"]["X"] < GenesisStateDB.multiCoin["A"]["X"]

\* C15: a failed Verify commits nothing.  A Verify of a Processing block that
\* returns an error leaves Status() Processing and the status cache, the
\* acceptance index, shared memory, the re-issue queue and the EVM chain
\* unchanged; it may have written the ancestor-input cache, and the same
\* Verify run again leaves the cache as the first run left it.
C15_FailedVerifyCommitsNothing ==
    [][\A b \in Blocks, boot \in BOOLEAN, ext \in ExtOutcomes :
          /\ Status(b) = "Processing"
          /\ VerifyOutcome(b, boot, ext).ret \notin {"ok", "panic"}
          /\ Verify(b, boot, ext)
          => /\ Status(b)' = "Processing"
             /\ UNCHANGED <<blockStatusCache, acceptedDB, sharedMemory,
                            pendingAtomicTxs, chain>>
             /\ (VerifyOutcome(b, boot, ext).cache)' = blockAtomicInputCache']_vars

\* no Verify has returned ok so far, and a failed Verify of an import has
\* written the ancestor-input cache
C15_Witness ==
    /\ chain = {genesisHash}
    /\ blockAtomicInputCache # <<>>
    /\ \E b \in Blocks : b # genesisHash /\ Status(b) = "Processing"
                         /\ TxOf(b).kind = "import"

\* C16: minimum gas price gate.  With the context bootstrapped, Verify of a
\* block one of whose ordinary transactions pays less than MinGasPrice
\* returns insufficientGasPrice, before any atomic tx check, cache write or
\* chain insertion; with the context not bootstrapped no Verify returns
\* insufficientGasPrice, and a block paying the minimum never gets it.
C16_MinGasPriceGate ==
    \A b \in Blocks \ {genesisHash}, ext \in ExtOutcomes :
        ethBlock[b].decoded =>
            /\ ethBlock[b].lowGas =>
                  VerifyOutcome(b, TRUE, ext) =
                      [ret |-> "errInsufficientGasPrice",
                       cache |-> blockAtomicInputCache, chain |-> chain]
            /\ ~ethBlock[b].lowGas =>
                  VerifyOutcome(b, TRUE, ext).ret # "errInsufficientGasPrice"
            /\ VerifyOutcome(b, FALSE, ext).ret # "errInsufficientGasPrice"

\* a block below the minimum gas price has been verified while the context
\* was not bootstrapped, and a bootstrapped Verify of a child import that is
\* below the minimum is gated although its scan would write the cache
C16_Witness ==
    \E b \in Blocks \ {genesisHash} :
        /\ ethBlock[b].lowGas /\ b \in chain
        /\ \E d \in Blocks \ {genesisHash} :
              /\ ParentHash(d) = b /\ ethBlock[d].decoded /\ ethBlock[d].lowGas
              /\ TxOf(d).kind = "import" /\ Status(b) = "Processing"
              /\ VerifyOutcome(d, FALSE, "ok").cache # blockAtomicInputCache

\* C20: all-or-nothing state transfer.  When EVMStateTransfer returns an
\* error the EVM state it was given is as before the call: no balance
\* debited, no nonce bumped.
C20_AllOrNothing ==
    EVMStateTransfer(stx, stateDB).ret # "ok"
    => EVMStateTransfer(stx, stateDB).state = stateDB

\* C17: ExportTx.Accept issues one Put to the DestinationChain partition
\* with one element per exported output, in output order: element i is keyed
\* by the InputID of the UTXO (txID, i), its value is the serialized UTXO with
\* the output's asset and amount, its Traits are the owner addresses of an
\* owner-addressable output; elements of distinct outputs have distinct
\* keys; nothing is written when serializing an output (or the Put) fails.
C17_ExportAcceptElements ==
    LET outs == stx.ExportedOutputs
        n == Len(outs)
        Good(p) ==
            /\ p.chain = stx.DestinationChain
            /\ Len(p.elems) = n
            /\ \A i \in 1..n :
                  /\ p.elems[i].Key = <<stx.id, i - 1>>
                  /\ p.elems[i].Value[1] = stx.id
                  /\ p.elems[i].Value[2] = i - 1
                  /\ p.elems[i].Value[3] = IdBytes(outs[i].AssetID)
                  /\ p.elems[i].Value[5] = outs[i].Amt
                  /\ p.elems[i].Traits =
                        IF outs[i].addressable THEN outs[i].Addrs ELSE <<>>
            /\ \A i, j \in 1..n : i # j => p.elems[i].Key # p.elems[j].Key
    IN  ~stx.isNil =>
        /\ \A fail \in ExportAcceptFails :
              LET r == ExportTxAccept(stx, fail)
              IN  /\ r.ret = "ok" => \E p \in r.puts : r.puts = {p} /\ Good(p)
                  /\ r.ret # "ok" => r.puts = {}
                  /\ fail.marshalAt \in 1..n => r.ret # "ok"
                  /\ fail.marshalAt \notin 1..n /\ ~fail.sm => r.ret = "ok"
        /\ \A p \in smPuts : Good(p)

\* shared memory has taken the Put of a tx with two outputs, one with two
\* owners and one that is not owner-addressable
C17_Witness ==
    \E p \in smPuts :
        /\ Len(p.elems) = 2
        /\ Len(p.elems[1].Traits) = 2
        /\ ~stx.ExportedOutputs[2].addressable
        /\ p.elems[2].Traits = <<>>

\* the walk of the conflict scan from p meets a block the VM does not know
\* before it meets an Accepted block, the genesis block or a cached block
RECURSIVE WalkMeetsUnknown(_)
WalkMeetsUnknown(p) ==
    IF ~ethBlock[p].decoded THEN TRUE
    ELSE IF Status(p) = "Accepted" \/ p = genesisHash
            \/ CacheHit(blockAtomicInputCache, p) THEN FALSE
    ELSE WalkMeetsUnknown(ParentHash(p))

\* C18: ancestor-input cache content.  Every entry a step adds to the cache
\* for a block p holds the union of InputUTXOs over the blocks from p back
\* to, excluding, p's last Accepted ancestor, also when p carries no atomic
\* tx; and an entry once stored is never changed by a later step.
C18_CacheContent ==
    [][\A i \in 1..Len(blockAtomicInputCache') :
          LET e == blockAtomicInputCache'[i]
          IN  IF CacheHit(blockAtomicInputCache, e.key)
                  THEN e.val = CacheVal(blockAtomicInputCache, e.key)
                  ELSE e.val = PathInputs(e.key)]_vars

\* C19: unknown ancestry is an error, not a crash.  Verify of a Processing
\* block with an atomic tx whose parent is unknown to the VM, or (for an
\* import) whose scan walk meets an unknown ancestor, returns an error.
C19_UnknownAncestryIsError ==
    \A b \in Blocks \ {genesisHash}, boot \in BOOLEAN, ext \in ExtOutcomes :
        /\ ethBlock[b].decoded /\ Status(b) = "Processing"
        /\ TxOf(b) # NoTx
        /\ ~MinGasPriceGate(ethBlock[b], boot)
        /\ \/ ~ethBlock[ParentHash(b)].decoded
           \/ TxOf(b).kind = "import" /\ WalkMeetsUnknown(ParentHash(b))
        => VerifyOutcome(b, boot, ext).ret \notin {"ok", "panic"}

====
